---- MODULE Spec2Model ----
(***************************************************************************)
(* Model of napier_cli.py: NapierClient (connect_to_server, process_query, *)
(* chat_loop, cleanup) and main.                                           *)
(*                                                                         *)
(* The program is one coroutine; pc is its position.  Every await of the   *)
(* tool session or the (blocking) model call is a position of its own, so  *)
(* that the outcome of the call (a value, or a raised exception) is the    *)
(* input of the action that resumes the coroutine.                         *)
(***************************************************************************)
EXTENDS Integers, Sequences, FiniteSets, TLC

\* ---------------------------------------------------------------- bounds
MaxHistory == 4     \* turns chat_history may hold in one run
MaxConnects == 2    \* connect attempts (argv and 'connect <path>') in one run
MaxSegments == 2    \* segments of one model output

\* ---------------------------------------------------------------- inputs
None == "None"

\* Paths the user may give to connect, one accepted and one refused by line
\* 61 (a .js path is accepted the same way as a .py one); Ext is the path's
\* suffix.
ServerPaths == {"a.py", "c.txt"}

Ext(path) ==
    CASE path = "a.py" -> ".py"
      [] path = "b.js" -> ".js"
      [] OTHER -> ".txt"

Queries == {"q"}

\* Tool names a server may advertise, and the lists list_tools may return
\* (server order).
ToolNames == {"echo", "add"}
Catalogs == {<< >>, <<"echo">>}

\* A model output is a sequence of segments:
\*   text     text the pattern of line 157 does not match: prose, or a fence
\*            whose body is not brace-delimited or holds a backtick
\*   call     ```json {...} ``` whose body is a JSON object; name is the value
\*            of its "tool_name" key, None when the key is absent
\*   badjson  ```json {...} ``` whose body starts with { and ends with } but
\*            is not valid JSON
Segments ==
    {[k |-> "text", name |-> None], [k |-> "badjson", name |-> None]}
    \cup {[k |-> "call", name |-> n] : n \in ToolNames \cup {None}}

RECURSIVE SeqsUpTo(_, _)
SeqsUpTo(S, n) ==
    IF n = 0 THEN {<< >>}
    ELSE LET shorter == SeqsUpTo(S, n - 1)
         IN shorter \cup {Append(s, x) : s \in {t \in shorter : Len(t) = n - 1}, x \in S}

Outputs == SeqsUpTo(Segments, MaxSegments)

\* Replies of the model to a follow-up prompt (their blocks are never extracted).
FollowupReplies == {<<[k |-> "call", name |-> "echo"]>>}

\* Payloads a tool may return.
Contents == {"c1"}

\* ---------------------------------------------------------------- state
VARIABLES
    pc,                \* position of the coroutine
    session,           \* self.session: NoSession or [id, server, initialized, listed]
    exit_stack,        \* self.exit_stack: contexts entered, oldest first
    released,          \* ids of the contexts whose exit has run
    connected_server,  \* self.connected_server
    chat_history,      \* self.chat_history
    available_tools,   \* names of the list most recently fetched by process_query
    tool_calls,        \* process_query: re.findall result
    idx,               \* process_query: position of the for loop in tool_calls
    final_response,    \* process_query: final_response
    cur,               \* process_query: tool_name of the call_tool in flight
    answer,            \* what the last process_query gave its caller
    exitcause,         \* why chat_loop/main was left
    calls,             \* history: call_tool invocations of the current query
    nmodel,            \* history: model calls issued by the current query
    h0,                \* history: Len(chat_history) when the current query began
    mfail,             \* history: a model call of the current query has failed
    nc,                \* history: connect attempts so far
    nextid             \* history: next context id

vars == <<pc, session, exit_stack, released, connected_server, chat_history,
          available_tools, tool_calls, idx, final_response, cur, answer,
          exitcause, calls, nmodel, h0, mfail, nc, nextid>>

qvars == <<available_tools, tool_calls, idx, final_response, cur, answer,
           calls, nmodel, h0, mfail>>
cvars == <<session, exit_stack, released, connected_server, nc, nextid>>

NoAnswer == [kind |-> "none", parts |-> << >>]

\* self.session = None (line 33)
NoSession == [id |-> 0, server |-> None, initialized |-> FALSE, listed |-> FALSE]

Init ==
    /\ pc = "start"
    /\ session = NoSession
    /\ exit_stack = << >>
    /\ released = {}
    /\ connected_server = None
    /\ chat_history = << >>
    /\ available_tools = << >>
    /\ tool_calls = << >>
    /\ idx = 0
    /\ final_response = << >>
    /\ cur = None
    /\ answer = NoAnswer
    /\ exitcause = None
    /\ calls = << >>
    /\ nmodel = 0
    /\ h0 = 0
    /\ mfail = FALSE
    /\ nc = 0
    /\ nextid = 1

\* ---------------------------------------------------------------- helpers
Turn(role, text) == [role |-> role, parts |-> <<text>>]

\* A history that keeps a window of the last turns only.
AppendTurnWindowed(history, turn) ==
    IF Len(history) >= 2 THEN Append(Tail(history), turn) ELSE Append(history, turn)

\* lines 103, 153, 188: self.chat_history.append(...)
AppendTurn(history, turn) == Append(history, turn)

Ctx(kind, id) == [kind |-> kind, id |-> id]

\* line 59-62: the script must end in .py or .js
ValidScript(path) == Ext(path) \in {".py", ".js"}

\* process_query's frame is gone once it has returned or raised: its locals
\* take their initial values again
FrameGone ==
    /\ available_tools' = << >>
    /\ tool_calls' = << >>
    /\ idx' = 0
    /\ final_response' = << >>
    /\ cur' = None

\* Nothing of the last query is left once chat_loop is left (break, or a
\* BaseException unwinding process_query and chat_loop up to the finally of
\* line 287)
Unwound ==
    /\ FrameGone
    /\ answer' = NoAnswer
    /\ calls' = << >>
    /\ nmodel' = 0
    /\ h0' = 0
    /\ mfail' = FALSE

\* ----------------------------------------------------- connect_to_server
\* How far lines 73-81 get before an exception (or a cancellation) stops them.
ConnectOutcomes ==
    {"spawn_fail", "init_fail", "list_fail", "ok", "cancelled"}

\* The contexts connect_to_server has pushed on the exit stack when it stops.
Entered(outcome) ==
    IF outcome = "spawn_fail" THEN << >>
    ELSE <<Ctx("transport", nextid), Ctx("session", nextid + 1)>>

\* self.session after line 75 has run (it is assigned before initialize()).
NewSession(path, outcome) ==
    [id |-> nextid + 1, server |-> path,
     initialized |-> outcome \in {"list_fail", "ok"},
     listed |-> outcome = "ok"]

\* The body of connect_to_server; how it ends is decided by the caller's
\* action from ValidScript and outcome.
connect_to_server(path, outcome) ==
    /\ connected_server' = path
    /\ nc' = nc + 1
    /\ IF ~ValidScript(path)
       THEN UNCHANGED <<session, exit_stack, nextid>>
       ELSE /\ exit_stack' = exit_stack \o Entered(outcome)
            /\ nextid' = nextid + Len(Entered(outcome))
            /\ session' = IF Len(Entered(outcome)) = 2
                          THEN NewSession(path, outcome) ELSE session
    /\ UNCHANGED released

\* main, lines 280-286: no argument, go straight to chat_loop
MainNoArg ==
    /\ pc = "start"
    /\ pc' = "prompt"
    /\ UNCHANGED <<chat_history, exitcause>>
    /\ UNCHANGED qvars
    /\ UNCHANGED cvars

\* main, lines 282-283: connect to sys.argv[1]; a ValueError is not caught
\* and leaves the try block for the finally clause
MainConnect(path, outcome) ==
    /\ pc = "start"
    /\ connect_to_server(path, outcome)
    /\ IF ~ValidScript(path)
       THEN pc' = "cleanup" /\ exitcause' = "exception"
       ELSE IF outcome = "cancelled"
       THEN pc' = "cleanup" /\ exitcause' = "interrupt"
       ELSE pc' = "prompt" /\ exitcause' = exitcause
    /\ UNCHANGED chat_history
    /\ UNCHANGED qvars

\* chat_loop, lines 234-236 with the except of line 256
ConnectCommand(path, outcome) ==
    /\ pc = "prompt"
    /\ nc < MaxConnects
    /\ connect_to_server(path, outcome)
    /\ IF ValidScript(path) /\ outcome = "cancelled"
       THEN pc' = "cleanup" /\ exitcause' = "interrupt"
       ELSE pc' = "prompt" /\ exitcause' = exitcause
    /\ UNCHANGED chat_history
    /\ UNCHANGED qvars

\* chat_loop, lines 238-246
HelpCommand ==
    /\ pc = "prompt"
    /\ UNCHANGED <<pc, chat_history, exitcause>>
    /\ UNCHANGED qvars
    /\ UNCHANGED cvars

\* --------------------------------------------------------- process_query
\* line 157-158: re.findall keeps, in order of appearance, the bodies of the
\* fenced json blocks that start with { and end with } and hold no backtick
Matches(seg) == seg.k \in {"call", "badjson"}

findall(out) == SelectSeq(out, Matches)

\* The loop entered whatever findall gave.
HasToolCallsAlways(found) == TRUE

\* line 162: if tool_calls:
HasToolCalls(found) == found # << >>

\* One element of final_response.
Part(k, name, content, text) ==
    [k |-> k, name |-> name, content |-> content, text |-> text]

\* line 176: "[Tool Result: <tool_name>] <result.content>"
ResultMarker(name, content) == Part("tool_result", name, content, << >>)

\* line 187: followup_response.text
ReplyPart(text) == Part("reply", None, None, text)

\* line 192: "Error: Invalid tool call format detected."
InvalidFormat == Part("invalid_format", None, None, << >>)

\* line 195: "Error executing tool: <str(e)>"
ExecError(msg) == Part("exec_error", None, msg, << >>)

\* line 197: "\n".join(final_response); line 200: response_text;
\* line 204: "Error processing query: <str(e)>"
Joined(parts) == [kind |-> "joined", parts |-> parts]
RawText(out) == [kind |-> "text", parts |-> out]
QueryError(msg) == [kind |-> "error", parts |-> <<ExecError(msg)>>]
Raised == [kind |-> "raised", parts |-> << >>]

\* The test left out: every query is let through.
AttachedAlways(s) == TRUE

\* lines 99 and 249: if not self.session
Attached(s) == s # NoSession

\* line 250: the notice printed instead of an answer
Rejected == [kind |-> "rejected", parts |-> << >>]

\* chat_loop line 248-251: a query typed while no session is attached
QueryNoSession(q) ==
    /\ pc = "prompt"
    /\ ~Attached(session)
    /\ answer' = Rejected
    /\ UNCHANGED <<pc, chat_history, exitcause>>
    /\ UNCHANGED <<available_tools, tool_calls, idx, final_response, cur,
                   calls, nmodel, h0, mfail>>
    /\ UNCHANGED cvars

\* chat_loop line 253, process_query lines 99-106: the user turn is appended
\* and list_tools is awaited
QueryCommand(q) ==
    /\ pc = "prompt"
    /\ Attached(session)
    /\ Len(chat_history) + 2 <= MaxHistory
    /\ chat_history' = AppendTurn(chat_history, Turn("user", q))
    /\ h0' = Len(chat_history)
    /\ calls' = << >>
    /\ nmodel' = 0
    /\ mfail' = FALSE
    /\ tool_calls' = << >>
    /\ idx' = 0
    /\ final_response' = << >>
    /\ cur' = None
    /\ answer' = NoAnswer
    /\ pc' = "list_tools"
    /\ UNCHANGED <<available_tools, exitcause>>
    /\ UNCHANGED cvars

\* lines 106-150: list_tools returns, the prompt is built and the model called
ListToolsReturn(cat) ==
    /\ pc = "list_tools"
    /\ available_tools' = cat
    /\ nmodel' = nmodel + 1
    /\ pc' = "model"
    /\ UNCHANGED <<chat_history, tool_calls, idx, final_response, cur, answer,
                   exitcause, calls, h0, mfail>>
    /\ UNCHANGED cvars

\* line 106 raises: it is outside the try of line 142, so the exception leaves
\* process_query and is caught by chat_loop, line 256
ListToolsRaise ==
    /\ pc = "list_tools"
    /\ answer' = Raised
    /\ pc' = "prompt"
    /\ FrameGone
    /\ UNCHANGED <<chat_history, exitcause, calls, nmodel, h0, mfail>>
    /\ UNCHANGED cvars

\* lines 152-162 and 198-200: the model's reply is appended and scanned.
\* The reply is drawn from the outputs whose follow-up turns still fit in
\* MaxHistory, so that no later append of the query is cut off by the cap.
ModelReply(out) ==
    /\ pc = "model"
    /\ Len(chat_history) + 1 + Len(findall(out)) <= MaxHistory
    /\ chat_history' = AppendTurn(chat_history, Turn("model", out))
    /\ tool_calls' = findall(out)
    /\ final_response' = << >>
    /\ IF HasToolCalls(findall(out))
       THEN /\ idx' = 1
            /\ pc' = "block"
            /\ UNCHANGED answer
       ELSE /\ idx' = idx
            /\ answer' = RawText(out)
                    /\ pc' = "prompt"
    /\ UNCHANGED <<available_tools, cur, exitcause, calls, nmodel, h0, mfail>>
    /\ UNCHANGED cvars

\* lines 147-152 raise: caught at line 202
ModelRaise ==
    /\ pc = "model"
    /\ mfail' = TRUE
    /\ answer' = QueryError("model_err")
    /\ pc' = "prompt"
    /\ FrameGone
    /\ UNCHANGED <<chat_history, exitcause, calls, nmodel, h0>>
    /\ UNCHANGED cvars

\* The JSONDecodeError handled by the except of line 202 instead: the query ends.
BlockInvalidJsonAborts ==
    /\ pc = "block"
    /\ idx <= Len(tool_calls)
    /\ tool_calls[idx].k = "badjson"
    /\ answer' = QueryError("json_err")
    /\ pc' = "prompt"
    /\ FrameGone
    /\ UNCHANGED <<chat_history, exitcause, calls, nmodel, h0, mfail>>
    /\ UNCHANGED cvars

\* lines 163-165, 190-192: json.loads raises JSONDecodeError
BlockInvalidJson ==
    /\ pc = "block"
    /\ idx <= Len(tool_calls)
    /\ tool_calls[idx].k = "badjson"
    /\ final_response' = Append(final_response, InvalidFormat)
    /\ idx' = idx + 1
    /\ UNCHANGED <<pc, chat_history, available_tools, tool_calls, cur, answer,
                   exitcause, calls, nmodel, h0, mfail>>
    /\ UNCHANGED cvars

\* lines 165-173: the block parses; call_tool is awaited with
\* tool_call.get("tool_name"), whatever it is
BlockCallTool ==
    /\ pc = "block"
    /\ idx <= Len(tool_calls)
    /\ tool_calls[idx].k = "call"
    /\ cur' = tool_calls[idx].name
    /\ calls' = Append(calls, [i |-> idx, name |-> tool_calls[idx].name])
    /\ pc' = "call_tool"
    /\ UNCHANGED <<chat_history, available_tools, tool_calls, idx, final_response,
                   answer, exitcause, nmodel, h0, mfail>>
    /\ UNCHANGED cvars

\* The follow-up sent but not waited for: the loop goes on to the next block.
CallToolReturnDetached(content) ==
    /\ pc = "call_tool"
    /\ final_response' = Append(final_response, ResultMarker(cur, content))
    /\ nmodel' = nmodel + 1
    /\ idx' = idx + 1
    /\ pc' = "block"
    /\ UNCHANGED <<chat_history, available_tools, tool_calls, cur, answer,
                   exitcause, calls, h0, mfail>>
    /\ UNCHANGED cvars

\* lines 173-186: call_tool returns; the marker is kept and the follow-up sent
CallToolReturn(content) ==
    /\ pc = "call_tool"
    /\ final_response' = Append(final_response, ResultMarker(cur, content))
    /\ nmodel' = nmodel + 1
    /\ pc' = "followup"
    /\ UNCHANGED <<chat_history, available_tools, tool_calls, idx, cur, answer,
                   exitcause, calls, h0, mfail>>
    /\ UNCHANGED cvars

\* The tool's exception handled by the except of line 202 instead: the query ends.
CallToolRaiseAborts ==
    /\ pc = "call_tool"
    /\ answer' = QueryError("tool_err")
    /\ pc' = "prompt"
    /\ FrameGone
    /\ UNCHANGED <<chat_history, exitcause, calls, nmodel, h0, mfail>>
    /\ UNCHANGED cvars

\* The failed call tried again: the loop stays on the same block.
CallToolRaiseRetries ==
    /\ pc = "call_tool"
    /\ final_response' = Append(final_response, ExecError("tool_err"))
    /\ pc' = "block"
    /\ UNCHANGED <<chat_history, available_tools, tool_calls, idx, cur, answer,
                   exitcause, calls, nmodel, h0, mfail>>
    /\ UNCHANGED cvars

\* line 173 raises: caught at line 193, the loop goes on
CallToolRaise ==
    /\ pc = "call_tool"
    /\ final_response' = Append(final_response, ExecError("tool_err"))
    /\ idx' = idx + 1
    /\ pc' = "block"
    /\ UNCHANGED <<chat_history, available_tools, tool_calls, cur, answer,
                   exitcause, calls, nmodel, h0, mfail>>
    /\ UNCHANGED cvars

\* The follow-up reply shown to the user but not appended to the history.
FollowupReplyNotKept(text) ==
    /\ pc = "followup"
    /\ final_response' = Append(final_response, ReplyPart(text))
    /\ idx' = idx + 1
    /\ pc' = "block"
    /\ UNCHANGED <<chat_history, available_tools, tool_calls, cur, answer, exitcause,
                   calls, nmodel, h0, mfail>>
    /\ UNCHANGED cvars

\* lines 186-188: the follow-up reply is kept and appended to the history
FollowupReply(text) ==
    /\ pc = "followup"
    /\ final_response' = Append(final_response, ReplyPart(text))
    /\ chat_history' = AppendTurn(chat_history, Turn("model", text))
    /\ idx' = idx + 1
    /\ pc' = "block"
    /\ UNCHANGED <<available_tools, tool_calls, cur, answer, exitcause,
                   calls, nmodel, h0, mfail>>
    /\ UNCHANGED cvars

\* line 186 raises: it is inside the try of line 164, so the except of line
\* 193 catches it and the loop goes on
FollowupRaise ==
    /\ pc = "followup"
    /\ mfail' = TRUE
    /\ final_response' = Append(final_response, ExecError("model_err"))
    /\ idx' = idx + 1
    /\ pc' = "block"
    /\ UNCHANGED <<chat_history, available_tools, tool_calls, cur, answer,
                   exitcause, calls, nmodel, h0>>
    /\ UNCHANGED cvars

\* The original reply kept as the first part of the answer.
LoopEndWithReply ==
    /\ pc = "block"
    /\ idx > Len(tool_calls)
    /\ answer' = Joined(<<ReplyPart(chat_history[h0 + 2].parts[1])>> \o final_response)
    /\ pc' = "prompt"
    /\ FrameGone
    /\ UNCHANGED <<chat_history, exitcause, calls, nmodel, h0, mfail>>
    /\ UNCHANGED cvars

\* line 197 and chat_loop line 254: the loop is over, the parts are joined
LoopEnd ==
    /\ pc = "block"
    /\ idx > Len(tool_calls)
    /\ answer' = Joined(final_response)
    /\ pc' = "prompt"
    /\ FrameGone
    /\ UNCHANGED <<chat_history, exitcause, calls, nmodel, h0, mfail>>
    /\ UNCHANGED cvars

\* ------------------------------------------------------- leaving the loop
Blocking == {"list_tools", "model", "call_tool", "followup"}

\* chat_loop, lines 230-232: break leaves chat_loop, whose frame is gone too
QuitCommand ==
    /\ pc = "prompt"
    /\ pc' = "cleanup"
    /\ exitcause' = "quit"
    /\ Unwound
    /\ UNCHANGED chat_history
    /\ UNCHANGED cvars

\* Ctrl-C at the prompt or during a call: KeyboardInterrupt / CancelledError is
\* a BaseException, so no except of lines 193, 202, 256 catches it
Interrupt ==
    /\ pc \in Blocking \cup {"prompt"}
    /\ pc' = "cleanup"
    /\ exitcause' = "interrupt"
    /\ Unwound
    /\ UNCHANGED chat_history
    /\ UNCHANGED cvars

\* a BaseException other than the user's interrupt raised by an awaited
\* session call leaves chat_loop the same way
Abort ==
    /\ pc \in {"list_tools", "call_tool"}
    /\ pc' = "cleanup"
    /\ exitcause' = "exception"
    /\ Unwound
    /\ UNCHANGED chat_history
    /\ UNCHANGED cvars

\* Only the context entered last is exited.
aclose_last(stack) == IF stack = << >> THEN {} ELSE {stack[Len(stack)].id}

\* lines 259-262: AsyncExitStack.aclose exits every context entered
aclose(stack) == {stack[i].id : i \in 1..Len(stack)}

\* main, lines 287-288
Cleanup ==
    /\ pc = "cleanup"
    /\ released' = released \cup aclose(exit_stack)
    /\ exit_stack' = << >>
    /\ pc' = "ended"
    /\ UNCHANGED <<session, connected_server, nc, nextid, chat_history, exitcause>>
    /\ UNCHANGED qvars

Next ==
    \/ MainNoArg
    \/ \E path \in ServerPaths, o \in ConnectOutcomes : MainConnect(path, o)
    \/ \E path \in ServerPaths, o \in ConnectOutcomes : ConnectCommand(path, o)
    \/ HelpCommand
    \/ QuitCommand
    \/ \E q \in Queries : QueryNoSession(q)
    \/ \E q \in Queries : QueryCommand(q)
    \/ \E cat \in Catalogs : ListToolsReturn(cat)
    \/ ListToolsRaise
    \/ \E out \in Outputs : ModelReply(out)
    \/ ModelRaise
    \/ BlockInvalidJson
    \/ BlockCallTool
    \/ \E c \in Contents : CallToolReturn(c)
    \/ CallToolRaise
    \/ \E t \in FollowupReplies : FollowupReply(t)
    \/ FollowupRaise
    \/ LoopEnd
    \/ Interrupt
    \/ Abort
    \/ Cleanup

Spec == Init /\ [][Next]_vars

\* ================================================================ claims
Range(seq) == {seq[i] : i \in 1..Len(seq)}

IsPrefix(a, b) == Len(a) <= Len(b) /\ SubSeq(b, 1, Len(a)) = a

\* The last query got a reply from the model and has returned.
ModelAnswered == pc = "prompt" /\ answer.kind \in {"text", "joined"}

\* The model's first reply in the last query, and the blocks extracted from it.
Output == chat_history[h0 + 2].parts[1]
Blocks == SelectSeq(Output, LAMBDA seg : seg.k # "text")

WellFormed(block) == block.k = "call" /\ block.name # None

\* The positions in tool_calls whose block parses, in order, as call_tool
\* receives them.
RECURSIVE Dispatches(_, _)
Dispatches(blocks, i) ==
    IF i > Len(blocks) THEN << >>
    ELSE IF blocks[i].k = "call"
         THEN <<[i |-> i, name |-> blocks[i].name]>> \o Dispatches(blocks, i + 1)
         ELSE Dispatches(blocks, i + 1)

ModelTurnsSince(n) == {i \in (n + 1)..Len(chat_history) : chat_history[i].role = "model"}

\* C1 (as claimed): whenever call_tool is in flight, the tool name it was
\* given is in the list most recently fetched by list_tools.
CE_C1 == pc = "call_tool" => cur \in Range(available_tools)

AllSucceeded == \A i \in 1..Len(answer.parts) : answer.parts[i].k # "exec_error"

Thm_C3 ==
    (ModelAnswered /\ Blocks = << >>)
    => /\ answer = RawText(Output)
       /\ calls = << >>
       /\ nmodel = 1
       /\ Len(chat_history) = h0 + 2
       /\ chat_history[h0 + 1].role = "user"
       /\ chat_history[h0 + 2].role = "model"

Wit_C3 == ModelAnswered /\ Blocks = << >> /\ Len(Output) = 2 /\ h0 > 0

\* C4 (as claimed): a block that parses as a JSON object without a tool_name
\* key is never dispatched: no call_tool is in flight for it.
CE_C4 == pc = "call_tool" => tool_calls[idx].name # None

\* C5: chat_history is append-only: every step leaves the previous history as
\* a prefix of the new one.
Thm_C5 == [][IsPrefix(chat_history, chat_history')]_vars

Wit_C5 == Len(chat_history) >= 3 /\ h0 > 0 /\ mfail

\* C6 (as claimed): once a model call of a query has failed, the query is
\* abandoned: no call_tool and no model call of it is in flight afterwards.
CE_C6 == mfail => pc \notin {"call_tool", "followup"}

\* C7 (as claimed): process_query never raises to chat_loop; it always
\* returns a text answer.
CE_C7 == answer.kind # "raised"

Thm_C10 ==
    pc = "ended" => /\ \A id \in 1..(nextid - 1) : id \in released
                    /\ exit_stack = << >>

Wit_C10 == pc = "ended" /\ exitcause = "interrupt" /\ Cardinality(released) >= 2

\* The positions of the coroutine that lie inside process_query.
InQuery == Blocking \cup {"block"}

\* C11 (as claimed): every query that stops without the process being
\* interrupted hands an answer back to its caller: the step on which
\* process_query is left for the prompt delivers a returned answer (the raw
\* reply, the joined parts, or the error text of line 204).
CE_C11 ==
    [][(pc \in InQuery /\ pc' = "prompt")
        => answer'.kind \in {"text", "joined", "error"}]_vars

\* No part of the answer is an error line: every extracted block was
\* dispatched, and every call_tool and follow-up model call succeeded.
NoErrorParts ==
    \A i \in 1..Len(answer.parts) : answer.parts[i].k \in {"tool_result", "reply"}

\* C12: when a query whose output holds N >= 1 extracted blocks has returned
\* and every dispatch and follow-up succeeded, the answer is the join of
\* exactly 2N parts: for i = 1..N the result marker of block i (carrying the
\* tool name of block i) followed by the follow-up reply for block i (the
\* model turn appended i-th after the original reply); the original reply is
\* not one of the parts.
Thm_C12 ==
    (ModelAnswered /\ Blocks # << >> /\ NoErrorParts)
    => /\ answer.kind = "joined"
       /\ Len(answer.parts) = 2 * Len(Blocks)
       /\ \A i \in 1..Len(Blocks) :
             /\ answer.parts[2 * i - 1].k = "tool_result"
             /\ answer.parts[2 * i - 1].name = Blocks[i].name
             /\ answer.parts[2 * i - 1].content \in Contents
             /\ answer.parts[2 * i] = ReplyPart(chat_history[h0 + 2 + i].parts[1])

\* two blocks, the first without a tool_name key, both dispatched and answered
Wit_C12 ==
    /\ ModelAnswered /\ NoErrorParts
    /\ Len(Blocks) = 2 /\ Blocks[1].name = None /\ Blocks[2].name = "add"
    /\ Len(answer.parts) = 4

\* The parts of final_response that satisfy P, in order, and their number.
PartsThat(P(_)) == SelectSeq(final_response, P)
IsReply(part) == part.k = "reply"
IsResult(part) == part.k = "tool_result"
IsToolError(part) == part = ExecError("tool_err")
IsModelError(part) == part = ExecError("model_err")

\* Operations of the current query issued and not yet returned or failed:
\* model calls issued less model turns appended and follow-up failures,
\* call_tool calls issued less markers and tool errors, and the list_tools
\* of line 106.
InFlight ==
    (nmodel - ((Len(chat_history) - (h0 + 1)) + Len(PartsThat(IsModelError))))
    + (Len(calls) - (Len(PartsThat(IsResult)) + Len(PartsThat(IsToolError))))
    + (IF pc = "list_tools" THEN 1 ELSE 0)

\* C13: while a query runs, exactly one operation is in flight at a blocking
\* position and none elsewhere; and when a call_tool is in flight, every
\* earlier successful call_tool of the query has had its follow-up answered
\* or failed, the answered ones having their reply appended to chat_history,
\* in order, after the original reply.
Thm_C13 ==
    pc \in InQuery
    => /\ InFlight = (IF pc \in Blocking THEN 1 ELSE 0)
       /\ pc = "call_tool"
          => /\ Len(PartsThat(IsResult))
                  = Len(PartsThat(IsReply)) + Len(PartsThat(IsModelError))
             /\ Len(chat_history) = h0 + 2 + Len(PartsThat(IsReply))
             /\ \A i \in 1..Len(PartsThat(IsReply)) :
                   chat_history[h0 + 2 + i] = Turn("model", PartsThat(IsReply)[i].text)

\* the call_tool of block 2 in flight after block 1 was called and answered
Wit_C13 ==
    /\ pc = "call_tool" /\ Len(calls) = 2
    /\ Len(final_response) = 2 /\ IsReply(final_response[2])
    /\ Len(chat_history) = h0 + 3

\* C14: a query typed while no session is attached is answered with the
\* notice and changes nothing else: a step taken at the prompt with no
\* session, other than a connect attempt or leaving the loop, stays at the
\* prompt, appends nothing to chat_history, issues no model call and no
\* session operation, and leaves the connection state as it was.
Thm_C14 ==
    [][(pc = "prompt" /\ session = NoSession /\ nc' = nc /\ pc' # "cleanup")
        => /\ pc' = "prompt"
           /\ answer' \in {answer, Rejected}
           /\ chat_history' = chat_history
           /\ nmodel' = nmodel
           /\ calls' = calls
           /\ session' = session
           /\ exit_stack' = exit_stack
           /\ connected_server' = connected_server]_vars

\* a query was rejected after a connect attempt that attached nothing
Wit_C14 ==
    /\ pc = "prompt" /\ answer = Rejected
    /\ session = NoSession /\ nc >= 1
    /\ chat_history = << >> /\ nmodel = 0

\* C15 (as claimed): when the follow-up model call of a dispatched block is
\* in flight, chat_history holds, after the original reply, one follow-up
\* prompt turn for every tool result of the query besides the follow-up
\* replies received.
CE_C15 ==
    pc = "followup"
    => Len(chat_history) >= h0 + 2 + Len(PartsThat(IsResult)) + Len(PartsThat(IsReply))

\* The session contexts entered and not yet exited.
OpenSessions == {i \in 1..Len(exit_stack) : exit_stack[i].kind = "session"}

\* C16 (as claimed): at no time is more than one tool session acquired and
\* not released.
CE_C16 == Cardinality(OpenSessions) <= 1

\* C17 (as claimed): whenever connected_server names a server, a session is
\* attached and it is the session connected to that server.
CE_C17 ==
    connected_server # None
    => (session # NoSession /\ session.server = connected_server)

\* C18 (as claimed): whenever a session is attached, it has completed its
\* initialize handshake and its first tool listing.
CE_C18 == Attached(session) => (session.initialized /\ session.listed)

\* The parts gathered by the last query: the loop's buffer while it runs, the
\* joined answer once it has returned.
PartsSoFar == IF pc = "prompt" THEN answer.parts ELSE final_response

\* C19: in a query whose output holds N extracted blocks, call_tool is
\* invoked at most once per block, in increasing block order and only for
\* blocks that parse (so at most N times); the follow-up model calls are as
\* many as the call_tool calls that succeeded (so at most one per block, and
\* none without a tool result), the follow-up in flight being the one for the
\* block whose result was received last; at most N + 1 model turns are
\* appended; and before the reply arrives no call_tool and no follow-up is
\* made.
Thm_C19 ==
    /\ (pc \in {"block", "call_tool", "followup"} \/ (ModelAnswered /\ Blocks # << >>))
       => /\ Len(calls) <= Len(Blocks)
          /\ \A i \in 1..Len(calls) :
                /\ calls[i].i \in 1..Len(Blocks)
                /\ Blocks[calls[i].i].k = "call"
                /\ Blocks[calls[i].i].name = calls[i].name
          /\ \A i, j \in 1..Len(calls) : i < j => calls[i].i < calls[j].i
          /\ nmodel - 1 = Cardinality({i \in 1..Len(PartsSoFar) : IsResult(PartsSoFar[i])})
          /\ nmodel - 1 <= Len(calls)
          /\ Cardinality(ModelTurnsSince(h0)) <= Len(Blocks) + 1
    /\ pc = "followup"
       => /\ IsResult(final_response[Len(final_response)])
          /\ final_response[Len(final_response)].name = calls[Len(calls)].name
          /\ calls[Len(calls)].i = idx
    /\ pc \in {"list_tools", "model"} => (calls = << >> /\ nmodel <= 1)

\* two blocks: the call_tool of the first failed and was not tried again,
\* that of the second succeeded and was followed up once
Wit_C19 ==
    /\ ModelAnswered /\ Len(Blocks) = 2
    /\ Len(calls) = 2 /\ nmodel = 2
    /\ Len(answer.parts) = 3 /\ IsToolError(answer.parts[1])

\* C20 (as claimed): chat_loop is left only by the quit command or by the
\* user's interrupt: every step that leaves a running loop records one of
\* these two causes.
CE_C20 ==
    [][(pc \in InQuery \cup {"prompt"} /\ pc' = "cleanup")
        => exitcause' \in {"quit", "interrupt"}]_vars

====
